---- MODULE Spec2Model ----
(***************************************************************************)
(* Static file middlewares of the dev server                               *)
(* (packages/vite/src/node/server/middlewares/static.ts):                  *)
(* servePublicMiddleware, serveStaticMiddleware, serveRawFsMiddleware and  *)
(* isFileServingRestricted.                                                *)
(*                                                                         *)
(* A JavaScript string is a sequence of one-character strings, so that     *)
(* startsWith, endsWith, slice, replace, decodeURI and the path functions  *)
(* are computed character by character.  An optional value (undefined or a *)
(* value) is the empty tuple or a one-element tuple.                       *)
(***************************************************************************)
EXTENDS Integers, Sequences, FiniteSets, Bags, TLC

VARIABLES strict, allow, alias, pc, op, url, fsExists, inSafe,
          calls, reqUrl, thrown, guardArg, guardRet, file, aliased, resolvedUrl,
          log, warnedMessages, nreq

vars == <<strict, allow, alias, pc, op, url, fsExists, inSafe,
          calls, reqUrl, thrown, guardArg, guardRet, file, aliased, resolvedUrl,
          log, warnedMessages, nreq>>

\* Number of requests (or direct calls of the guard) one behaviour handles.
MaxReq == 2

None == <<>>
Some(v) == <<v>>

---------------------------------------------------------------------------
\* String constants of the program and of the configuration.

FS_PREFIX == <<"/", "@", "f", "s", "/">>

VALID_ID_PREFIX == <<"/", "@", "i", "d", "/">>

CLIENT_PUBLIC_PATH ==
  <<"/", "@", "v", "i", "t", "e", "/", "c", "l", "i", "e", "n",
     "t">>

ENV_PUBLIC_PATH == <<"/", "@", "v", "i", "t", "e", "/", "e", "n", "v">>

HtmlExt == <<".", "h", "t", "m", "l">>

ImportWord == <<"i", "m", "p", "o", "r", "t">>

D_p == <<"/", "p">>

D_pa == <<"/", "p", "/", "a">>

D_q == <<"/", "q">>

S_x == <<"/", "x">>

S_y == <<"/", "y">>

S_a == <<"/", "a">>

S_ab == <<"/", "a", "/", "b">>

S_b == <<"/", "b">>

S_pq == <<"/", "p", "/", "q">>

S_e == <<"/", "e">>

U_root == <<"/">>

U_assets_dir == <<"/", "a", "s", "s", "e", "t", "s", "/">>

U_assets_logo ==
  <<"/", "a", "s", "s", "e", "t", "s", "/", "l", "o", "g", "o",
     ".", "p", "n", "g">>

U_index == <<"/", "i", "n", "d", "e", "x", ".", "h", "t", "m", "l">>

U_index_q ==
  <<"/", "i", "n", "d", "e", "x", ".", "h", "t", "m", "l", "?",
     "v", "=", "1">>

U_index_h ==
  <<"/", "i", "n", "d", "e", "x", ".", "h", "t", "m", "l", "#",
     "t", "o", "p">>

U_dothtml == <<"/", ".", "h", "t", "m", "l">>

U_logo_import ==
  <<"/", "a", "s", "s", "e", "t", "s", "/", "l", "o", "g", "o",
     ".", "p", "n", "g", "?", "i", "m", "p", "o", "r", "t">>

U_index_import ==
  <<"/", "a", ".", "p", "n", "g", "?", "t", "=", "1", "&", "i",
     "m", "p", "o", "r", "t">>

U_fs_in == <<"/", "@", "f", "s", "/", "p", "/", "a", ".", "p", "n", "g">>

U_fs_secret == <<"/", "@", "f", "s", "/", "p", "s", "/", "x">>

U_fs_dir == <<"/", "@", "f", "s", "/", "p">>

U_client ==
  <<"/", "@", "v", "i", "t", "e", "/", "c", "l", "i", "e", "n",
     "t">>

U_enc == <<"/", "%", "6", "1", ".", "p", "n", "g">>

U_bad == <<"/", "a", "%">>

U_bad2 == <<"/", "%", "z", "z">>

U_trav == <<"/", ".", ".", "/", "p", "s", "/", "x">>

U_abc == <<"/", "a", "/", "b", "/", "c">>

U_bx == <<"/", "b", "/", "x">>

U_e == <<"/", "e">>

P_in == <<"/", "p", "/", "a", ".", "p", "n", "g">>

P_dir == <<"/", "p">>

P_secret == <<"/", "p", "s", "/", "x">>

P_trav == <<"/", "p", "/", ".", ".", "/", "p", "s", "/", "x">>

P_q == <<"/", "p", "/", "a", ".", "p", "n", "g", "?", "v", "=", "1">>

P_rel == <<"p", "/", "a", ".", "p", "n", "g">>

P_qy == <<"/", "q", "/", "y">>

---------------------------------------------------------------------------
\* JavaScript string primitives.

StartsWith(s, p) == Len(p) <= Len(s) /\ SubSeq(s, 1, Len(p)) = p

EndsWith(s, p) == Len(p) <= Len(s) /\ SubSeq(s, Len(s) - Len(p) + 1, Len(s)) = p

\* String.prototype.indexOf, 1-based; 0 when p does not occur in s.
IndexOf(s, p) ==
  LET hits == { i \in 1..(Len(s) - Len(p) + 1) : SubSeq(s, i, i + Len(p) - 1) = p }
  IN IF hits = {} THEN 0 ELSE CHOOSE i \in hits : \A j \in hits : i <= j

\* s.slice(n): s without its first n characters.
Slice(s, n) == SubSeq(s, n + 1, Len(s))

\* The part of s before the first occurrence of character c (all of s if none):
\* s.replace(/c.*$/s, '').
CutAt(s, c) ==
  LET i == IndexOf(s, <<c>>) IN IF i = 0 THEN s ELSE SubSeq(s, 1, i - 1)

\* s.replace(find, replacement) for a string find: the first occurrence only.
ReplaceFirst(s, find, replacement) ==
  LET i == IndexOf(s, find)
  IN IF i = 0 THEN s
     ELSE SubSeq(s, 1, i - 1) \o replacement \o Slice(s, i - 1 + Len(find))

\* A regular expression is a literal, anchored at the start (/^lit/) or not
\* (/lit/): RegExp.prototype.test and String.prototype.replace with it.
RegExpTest(re, s) ==
  IF re.anchored THEN StartsWith(s, re.lit) ELSE IndexOf(s, re.lit) # 0

ReplaceRegExp(s, re, replacement) ==
  IF RegExpTest(re, s) THEN ReplaceFirst(s, re.lit, replacement) ELSE s

---------------------------------------------------------------------------
\* utils: cleanUrl, isImportRequest, isInternalRequest, slash,
\* ensureLeadingSlash.

\* url.replace(hashRE, '').replace(queryRE, '')
cleanUrl(u) == CutAt(CutAt(u, "#"), "?")

\* importQueryRE = /(\?|&)import=?(?:&|$)/
isImportRequest(u) ==
  \E i \in 1..Len(u) :
     /\ u[i] \in {"?", "&"}
     /\ StartsWith(Slice(u, i), ImportWord)
     /\ LET rest == Slice(u, i + Len(ImportWord))
            tail == IF rest # <<>> /\ Head(rest) = "=" THEN Tail(rest) ELSE rest
        IN \/ rest = <<>> \/ Head(rest) = "&"
           \/ tail = <<>> \/ Head(tail) = "&"

internalPrefixes == <<FS_PREFIX, VALID_ID_PREFIX, CLIENT_PUBLIC_PATH, ENV_PUBLIC_PATH>>

isInternalRequest(u) ==
  \E i \in 1..Len(internalPrefixes) : StartsWith(u, internalPrefixes[i])

\* p.replace(/\\/g, '/')
slash(p) == [i \in 1..Len(p) |-> IF p[i] = "\\" THEN "/" ELSE p[i]]

ensureLeadingSlash(p) == IF StartsWith(p, <<"/">>) THEN p ELSE <<"/">> \o p

---------------------------------------------------------------------------
\* Node's posix path functions.

\* The segments of p between "/" characters (p.split('/')).
RECURSIVE Split(_)
Split(p) ==
  LET i == IndexOf(p, <<"/">>)
  IN IF i = 0 THEN <<p>> ELSE <<SubSeq(p, 1, i - 1)>> \o Split(Slice(p, i))

\* normalizeString: drops empty and "." segments and resolves ".." against
\* the segment before it; above the root ".." is dropped for an absolute
\* path and kept for a relative one.
RECURSIVE NormalizeSegs(_, _, _)
NormalizeSegs(segs, acc, allowAboveRoot) ==
  IF segs = <<>> THEN acc
  ELSE LET s == Head(segs) IN
       IF s = <<>> \/ s = <<".">>
       THEN NormalizeSegs(Tail(segs), acc, allowAboveRoot)
       ELSE IF s = <<".", ".">>
       THEN IF acc # <<>> /\ acc[Len(acc)] # <<".", ".">>
            THEN NormalizeSegs(Tail(segs), SubSeq(acc, 1, Len(acc) - 1), allowAboveRoot)
            ELSE IF allowAboveRoot
            THEN NormalizeSegs(Tail(segs), Append(acc, s), allowAboveRoot)
            ELSE NormalizeSegs(Tail(segs), acc, allowAboveRoot)
       ELSE NormalizeSegs(Tail(segs), Append(acc, s), allowAboveRoot)

RECURSIVE Join(_)
Join(segs) ==
  IF segs = <<>> THEN <<>>
  ELSE IF Len(segs) = 1 THEN segs[1]
  ELSE segs[1] \o <<"/">> \o Join(Tail(segs))

\* path.resolve(from, to) with an absolute from: an absolute, normalized
\* path without a trailing slash.
pathResolve(from, to) ==
  LET joined == IF StartsWith(to, <<"/">>) THEN to
                ELSE IF to = <<>> THEN from
                ELSE from \o <<"/">> \o to
  IN <<"/">> \o Join(NormalizeSegs(Split(joined), <<>>, FALSE))

\* path.posix.normalize
pathNormalize(p) ==
  IF p = <<>> THEN <<".">>
  ELSE LET isAbsolute == StartsWith(p, <<"/">>)
           trailing   == EndsWith(p, <<"/">>)
           body       == Join(NormalizeSegs(Split(p), <<>>, ~isAbsolute))
           body1      == IF body = <<>> /\ ~isAbsolute THEN <<".">> ELSE body
           body2      == IF body1 # <<>> /\ trailing THEN body1 \o <<"/">> ELSE body1
       IN IF isAbsolute THEN <<"/">> \o body2 ELSE body2

\* normalizePath(id) = path.posix.normalize(isWindows ? slash(id) : id); the
\* platform is a posix one.
isWindows == FALSE

normalizePath(id) == pathNormalize(IF isWindows THEN slash(id) ELSE id)

\* path.extname: from the last "." of the last segment (trailing slashes
\* ignored) to its end; empty when there is no ".", when the "." is the
\* first character of the segment, or when the segment is "..".
RECURSIVE StripTrailingSlashes(_)
StripTrailingSlashes(p) ==
  IF p # <<>> /\ p[Len(p)] = "/" THEN StripTrailingSlashes(SubSeq(p, 1, Len(p) - 1))
  ELSE p

pathExtname(p) ==
  LET q    == StripTrailingSlashes(p)
      segs == Split(q)
      base == segs[Len(segs)]
      dots == { i \in 1..Len(base) : base[i] = "." }
  IN IF dots = {} THEN <<>>
     ELSE LET d == CHOOSE i \in dots : \A j \in dots : j <= i
          IN IF d = 1 \/ base = <<".", ".">> THEN <<>>
             ELSE SubSeq(base, d, Len(base))

---------------------------------------------------------------------------
\* decodeURI (ECMAScript Decode with the reserved set of decodeURI).

HexTable ==
  {
    <<"0", 0>>, <<"1", 1>>, <<"2", 2>>, <<"3", 3>>, <<"4", 4>>, <<"5", 5>>,
    <<"6", 6>>, <<"7", 7>>, <<"8", 8>>, <<"9", 9>>, <<"a", 10>>, <<"b", 11>>,
    <<"c", 12>>, <<"d", 13>>, <<"e", 14>>, <<"f", 15>>, <<"A", 10>>, <<"B", 11>>,
    <<"C", 12>>, <<"D", 13>>, <<"E", 14>>, <<"F", 15>>
  }

AsciiTable ==
  {
    <<32, " ">>, <<33, "!">>, <<34, "\"">>, <<35, "#">>, <<36, "$">>, <<37, "%">>,
    <<38, "&">>, <<39, "'">>, <<40, "(">>, <<41, ")">>, <<42, "*">>, <<43, "+">>,
    <<44, ",">>, <<45, "-">>, <<46, ".">>, <<47, "/">>, <<48, "0">>, <<49, "1">>,
    <<50, "2">>, <<51, "3">>, <<52, "4">>, <<53, "5">>, <<54, "6">>, <<55, "7">>,
    <<56, "8">>, <<57, "9">>, <<58, ":">>, <<59, ";">>, <<60, "<">>, <<61, "=">>,
    <<62, ">">>, <<63, "?">>, <<64, "@">>, <<65, "A">>, <<66, "B">>, <<67, "C">>,
    <<68, "D">>, <<69, "E">>, <<70, "F">>, <<71, "G">>, <<72, "H">>, <<73, "I">>,
    <<74, "J">>, <<75, "K">>, <<76, "L">>, <<77, "M">>, <<78, "N">>, <<79, "O">>,
    <<80, "P">>, <<81, "Q">>, <<82, "R">>, <<83, "S">>, <<84, "T">>, <<85, "U">>,
    <<86, "V">>, <<87, "W">>, <<88, "X">>, <<89, "Y">>, <<90, "Z">>, <<91, "[">>,
    <<92, "\\">>, <<93, "]">>, <<94, "^">>, <<95, "_">>, <<97, "a">>,
    <<98, "b">>, <<99, "c">>, <<100, "d">>, <<101, "e">>, <<102, "f">>, <<103, "g">>,
    <<104, "h">>, <<105, "i">>, <<106, "j">>, <<107, "k">>, <<108, "l">>, <<109, "m">>,
    <<110, "n">>, <<111, "o">>, <<112, "p">>, <<113, "q">>, <<114, "r">>, <<115, "s">>,
    <<116, "t">>, <<117, "u">>, <<118, "v">>, <<119, "w">>, <<120, "x">>, <<121, "y">>,
    <<122, "z">>, <<123, "{">>, <<124, "|">>, <<125, "}">>, <<126, "~">>
  }

Letters ==
  {
    "A", "B", "C", "D", "E", "F", "G", "H", "I", "J", "K", "L", "M",
    "N", "O", "P", "Q", "R", "S", "T", "U", "V", "W", "X", "Y", "Z",
    "a", "b", "c", "d", "e", "f", "g", "h", "i", "j", "k", "l", "m",
    "n", "o", "p", "q", "r", "s", "t", "u", "v", "w", "x", "y", "z"
  }


HexDigits == { t[1] : t \in HexTable }

HexVal(c) == (CHOOSE t \in HexTable : t[1] = c)[2]

\* The characters decodeURI leaves escaped.
UriReserved == {";", "/", "?", ":", "@", "&", "=", "+", "$", ",", "#"}

\* A character of the result that AsciiTable does not list.
OtherChar == "\\u"

IsEscape(s) == Len(s) >= 3 /\ s[1] = "%" /\ s[2] \in HexDigits /\ s[3] \in HexDigits

EscapeByte(s) == 16 * HexVal(s[2]) + HexVal(s[3])

\* The number of continuation bytes a leading UTF-8 byte announces, -1 for
\* a byte that cannot lead.
Continuations(b) ==
  IF b < 128 THEN 0
  ELSE IF b >= 194 /\ b <= 223 THEN 1
  ELSE IF b >= 224 /\ b <= 239 THEN 2
  ELSE IF b >= 240 /\ b <= 244 THEN 3
  ELSE -1

RECURSIVE HasContinuations(_, _)
HasContinuations(s, n) ==
  IF n = 0 THEN TRUE
  ELSE /\ IsEscape(s)
       /\ EscapeByte(s) >= 128 /\ EscapeByte(s) <= 191
       /\ HasContinuations(Slice(s, 3), n - 1)

\* decodeURI(s): None when it throws URIError, else the decoded string.
RECURSIVE decodeURI(_)
decodeURI(s) ==
  IF s = <<>> THEN Some(<<>>)
  ELSE IF Head(s) # "%"
  THEN LET r == decodeURI(Tail(s))
       IN IF r = None THEN None ELSE Some(<<Head(s)>> \o r[1])
  ELSE IF ~IsEscape(s) THEN None
  ELSE LET b == EscapeByte(s)
           n == Continuations(b)
       IN IF n = -1 \/ ~HasContinuations(Slice(s, 3), n) THEN None
          ELSE LET r == decodeURI(Slice(s, 3 * (n + 1)))
                   c == IF b >= 128 THEN <<OtherChar>>
                        ELSE IF \E t \in AsciiTable : t[1] = b
                        THEN LET ch == (CHOOSE t \in AsciiTable : t[1] = b)[2]
                             IN IF ch \in UriReserved THEN SubSeq(s, 1, 3) ELSE <<ch>>
                        ELSE <<OtherChar>>
               IN IF r = None THEN None ELSE Some(c \o r[1])

\* fsPathFromId(id)
fsPathFromId(id) ==
  LET fsPath == normalizePath(Slice(id, Len(FS_PREFIX)))
  IN IF StartsWith(fsPath, <<"/">>)
        \/ (Len(fsPath) >= 2 /\ fsPath[1] \in Letters /\ fsPath[2] = ":")
     THEN fsPath ELSE <<"/">> \o fsPath

---------------------------------------------------------------------------
\* Configuration: server.config.server.fs.{strict, allow},
\* server.config.resolve.alias and the serving root dir.  strict is true,
\* false or undefined (enabled but not yet enforcing).

StrictValues == {"true", "false", "undefined"}

AllowLists == { <<D_p>>, <<D_pa, D_q>> }

StringFind(s) == [type |-> "string", anchored |-> FALSE, lit |-> s]

RegExpFind(anch, s) == [type |-> "regexp", anchored |-> anch, lit |-> s]

AliasTables ==
  { <<>>,
    << [find |-> StringFind(S_a),  replacement |-> S_x],
       [find |-> StringFind(S_ab), replacement |-> S_y] >>,
    << [find |-> RegExpFind(TRUE, S_b),  replacement |-> S_pq],
       [find |-> RegExpFind(FALSE, S_x), replacement |-> S_y],
       [find |-> StringFind(S_e),  replacement |-> <<>>] >> }

\* Request URLs and arguments of direct calls of the guard.
Urls ==
  { U_root, U_assets_dir, U_assets_logo, U_index, U_index_q, U_index_h,
    U_dothtml, U_logo_import, U_index_import, U_fs_in, U_fs_secret, U_fs_dir,
    U_client, U_enc, U_bad, U_bad2, U_trav, U_abc, U_bx, U_e }

Paths == { P_in, P_dir, P_secret, P_trav, P_q, P_rel, P_qy }

---------------------------------------------------------------------------
\* Logger: warn(msg) always writes; warnOnce(msg) writes a message once.

OutsideMsg(u) == [text |-> "outside of Vite serving allow list", url |-> u, allow |-> allow]

UnrestrictedMsg(u) == [text |-> "Unrestricted file system access", url |-> u, allow |-> <<>>]

DeprecationMsg == [text |-> "will be restricted by default", url |-> <<>>, allow |-> <<>>]

warn(st, msg) == [log |-> st.log (+) SetToBag({msg}), warned |-> st.warned]

warnOnce(st, msg) ==
  IF msg \in st.warned THEN st
  ELSE [log |-> st.log (+) SetToBag({msg}), warned |-> st.warned \cup {msg}]

\* The logger after the calls in emits, in order.
RECURSIVE Emit(_, _)
Emit(st, emits) ==
  IF emits = <<>> THEN st
  ELSE Emit(IF Head(emits).fn = "warn" THEN warn(st, Head(emits).msg)
            ELSE warnOnce(st, Head(emits).msg),
            Tail(emits))

---------------------------------------------------------------------------
\* isFileServingRestricted(url, server).  existsOnDisk is the result of
\* fs.existsSync(file) and inSafeSet that of safeModulesPath.has(file).

GuardResult(u, r, f, e) == [arg |-> u, ret |-> r, file |-> f, emits |-> e]

isFileServingRestricted_noAllow(u, existsOnDisk, inSafeSet) ==
  IF strict = "false" THEN GuardResult(u, FALSE, None, <<>>)
  ELSE LET f == ensureLeadingSlash(normalizePath(cleanUrl(u))) IN
       IF existsOnDisk THEN GuardResult(u, FALSE, Some(f), <<>>)
       ELSE IF inSafeSet THEN GuardResult(u, FALSE, Some(f), <<>>)
       ELSE IF strict # "true"
       THEN GuardResult(u, FALSE, Some(f),
              << [fn |-> "warnOnce", msg |-> UnrestrictedMsg(u)],
                 [fn |-> "warnOnce", msg |-> DeprecationMsg] >>)
       ELSE GuardResult(u, TRUE, Some(f), << [fn |-> "warn", msg |-> OutsideMsg(u)] >>)

isFileServingRestricted(u, existsOnDisk, inSafeSet) ==
  IF strict = "false" THEN GuardResult(u, FALSE, None, <<>>)
  ELSE LET f == ensureLeadingSlash(normalizePath(cleanUrl(u))) IN
       IF existsOnDisk THEN GuardResult(u, FALSE, Some(f), <<>>)
       ELSE IF inSafeSet THEN GuardResult(u, FALSE, Some(f), <<>>)
       ELSE IF \E i \in 1..Len(allow) : StartsWith(f, allow[i] \o <<"/">>)
       THEN GuardResult(u, FALSE, Some(f), <<>>)
       ELSE IF strict # "true"
       THEN GuardResult(u, FALSE, Some(f),
              << [fn |-> "warnOnce", msg |-> UnrestrictedMsg(u)],
                 [fn |-> "warnOnce", msg |-> DeprecationMsg] >>)
       ELSE GuardResult(u, TRUE, Some(f), << [fn |-> "warn", msg |-> OutsideMsg(u)] >>)

---------------------------------------------------------------------------
\* The middlewares.  Each yields what one run of the handler does: the
\* handlers it dispatches to, in order, req.url afterwards, whether it
\* threw, and the intermediate values of the run.

Outcome(c, ru, th, g, al, res) ==
  [calls |-> c, reqUrl |-> ru, thrown |-> th,
   guardArg |-> IF g = None THEN None ELSE Some(g[1].arg),
   guardRet |-> IF g = None THEN None ELSE Some(g[1].ret),
   file |-> IF g = None THEN None ELSE g[1].file,
   aliased |-> al, resolvedUrl |-> res,
   emits |-> IF g = None THEN <<>> ELSE g[1].emits]

\* JavaScript truthiness of an optional string.
Truthy(o) == o # None /\ o[1] # <<>>

\* servePublicMiddleware: the skip condition and the handler.
PublicSkips_internalOnly(u) == isInternalRequest(u)

PublicSkips(u) == isImportRequest(u) \/ isInternalRequest(u)

viteServePublicMiddleware(u) ==
  IF PublicSkips(u) THEN Outcome(<<"next">>, u, FALSE, None, None, None)
  ELSE Outcome(<<"serve">>, u, FALSE, None, None, None)

\* serveStaticMiddleware: the skip condition.
StaticSkips_rawExtname(u) ==
  \/ EndsWith(u, <<"/">>)
  \/ pathExtname(u) = HtmlExt
  \/ isInternalRequest(u)

StaticSkips(u) ==
  \/ EndsWith(u, <<"/">>)
  \/ pathExtname(cleanUrl(u)) = HtmlExt
  \/ isInternalRequest(u)

\* The alias loop: redirected after the loop over server.config.resolve.alias.
RuleMatches(rule, u) ==
  IF rule.find.type = "string" THEN StartsWith(u, rule.find.lit)
  ELSE RegExpTest(rule.find, u)

RuleReplace(rule, u) ==
  IF rule.find.type = "string" THEN ReplaceFirst(u, rule.find.lit, rule.replacement)
  ELSE ReplaceRegExp(u, rule.find, rule.replacement)

RECURSIVE AliasLoop(_, _)
AliasLoop(i, u) ==
  IF i > Len(alias) THEN None
  ELSE IF RuleMatches(alias[i], u) THEN Some(RuleReplace(alias[i], u))
  ELSE AliasLoop(i + 1, u)

RECURSIVE AliasLoopNoBreak(_, _, _)
AliasLoopNoBreak(i, u, redirected) ==
  IF i > Len(alias) THEN redirected
  ELSE IF RuleMatches(alias[i], u)
  THEN AliasLoopNoBreak(i + 1, u, Some(RuleReplace(alias[i], u)))
  ELSE AliasLoopNoBreak(i + 1, u, redirected)

resolveAlias_noBreak(u) == AliasLoopNoBreak(1, u, None)

resolveAlias(u) == AliasLoop(1, u)

dir == D_p

viteServeStaticMiddleware(u, existsOnDisk, inSafeSet) ==
  IF StaticSkips(u) THEN Outcome(<<"next">>, u, FALSE, None, None, None)
  ELSE LET decoded == decodeURI(u) IN
  IF decoded = None THEN Outcome(<<>>, u, TRUE, None, None, None)
  ELSE
    LET u1         == decoded[1]
        found      == resolveAlias(u1)
        redirected == IF Truthy(found) /\ StartsWith(found[1], dir)
                      THEN Some(Slice(found[1], Len(dir))) ELSE found
        resolved   == IF Truthy(redirected) THEN redirected[1] ELSE u1
        relative   == IF StartsWith(resolved, <<"/">>) THEN Tail(resolved) ELSE resolved
        fileUrl0   == pathResolve(dir, relative)
        fileUrl    == IF EndsWith(resolved, <<"/">>) /\ ~EndsWith(fileUrl0, <<"/">>)
                      THEN fileUrl0 \o <<"/">> ELSE fileUrl0
        g          == isFileServingRestricted(fileUrl, existsOnDisk, inSafeSet)
    IN IF g.ret
       THEN Outcome(<<"next">>, u, FALSE, Some(g), found, Some(resolved))
       ELSE Outcome(<<"serve">>, IF Truthy(redirected) THEN redirected[1] ELSE u,
                    FALSE, Some(g), found, Some(resolved))

\* serveRawFsMiddleware.  fsPathFromId yields an absolute path here, so the
\* working directory path.resolve starts from has no part in the result.
StripDrive(u) ==
  IF Len(u) >= 2 /\ u[1] \in Letters /\ u[2] = ":" THEN Slice(u, 2) ELSE u

viteServeRawFsMiddleware(u, existsOnDisk, inSafeSet) ==
  IF StartsWith(u, FS_PREFIX)
  THEN LET g   == isFileServingRestricted(
                    slash(pathResolve(dir, fsPathFromId(u))), existsOnDisk, inSafeSet)
           u1  == Slice(u, Len(FS_PREFIX))
           u2  == IF isWindows THEN StripDrive(u1) ELSE u1
       IN Outcome((IF g.ret THEN <<"next">> ELSE <<>>) \o <<"serveFromRoot">>,
                  u2, FALSE, Some(g), None, None)
  ELSE Outcome(<<"next">>, u, FALSE, None, None, None)

---------------------------------------------------------------------------
\* The state machine.  A request is handled by one run of a handler, which
\* runs to completion; Finish discards the request's context.  The disk and
\* the module graph's safe-path set belong to the environment and may change
\* between requests: each run draws the answers of fs.existsSync(file) and
\* safeModulesPath.has(file) for the file it probes.  The configuration is
\* fixed when the middlewares are created.

Init ==
  /\ strict \in StrictValues
  /\ allow \in AllowLists
  /\ alias \in AliasTables
  /\ pc = "idle"
  /\ op = "none"
  /\ url = <<>>
  /\ fsExists = FALSE
  /\ inSafe = FALSE
  /\ calls = <<>>
  /\ reqUrl = <<>>
  /\ thrown = FALSE
  /\ guardArg = None
  /\ guardRet = None
  /\ file = None
  /\ aliased = None
  /\ resolvedUrl = None
  /\ log = EmptyBag
  /\ warnedMessages = {}
  /\ nreq = 0

\* The handler named o ran on u with the filesystem answers ex and sf and
\* did what out says.
Handled(o, u, ex, sf, out) ==
  /\ pc' = "done"
  /\ op' = o
  /\ url' = u
  /\ fsExists' = ex
  /\ inSafe' = sf
  /\ calls' = out.calls
  /\ reqUrl' = out.reqUrl
  /\ thrown' = out.thrown
  /\ guardArg' = out.guardArg
  /\ guardRet' = out.guardRet
  /\ file' = out.file
  /\ aliased' = out.aliased
  /\ resolvedUrl' = out.resolvedUrl
  /\ LET st == Emit([log |-> log, warned |-> warnedMessages], out.emits)
     IN log' = st.log /\ warnedMessages' = st.warned
  /\ nreq' = nreq + 1
  /\ UNCHANGED <<strict, allow, alias>>

ServePublic ==
  /\ pc = "idle" /\ nreq < MaxReq
  /\ \E u \in Urls : Handled("public", u, FALSE, FALSE, viteServePublicMiddleware(u))

ServeStatic ==
  /\ pc = "idle" /\ nreq < MaxReq
  /\ \E u \in Urls, ex \in BOOLEAN, sf \in BOOLEAN :
        Handled("static", u, ex, sf, viteServeStaticMiddleware(u, ex, sf))

ServeRawFs ==
  /\ pc = "idle" /\ nreq < MaxReq
  /\ \E u \in Urls, ex \in BOOLEAN, sf \in BOOLEAN :
        Handled("rawfs", u, ex, sf, viteServeRawFsMiddleware(u, ex, sf))

\* A direct call of the exported isFileServingRestricted.
CallGuard ==
  /\ pc = "idle" /\ nreq < MaxReq
  /\ \E u \in Paths, ex \in BOOLEAN, sf \in BOOLEAN :
        LET g == isFileServingRestricted(u, ex, sf)
        IN Handled("guard", u, ex, sf, Outcome(<<>>, u, FALSE, Some(g), None, None))

Finish ==
  /\ pc = "done"
  /\ pc' = "idle"
  /\ op' = "none"
  /\ url' = <<>>
  /\ fsExists' = FALSE
  /\ inSafe' = FALSE
  /\ calls' = <<>>
  /\ reqUrl' = <<>>
  /\ thrown' = FALSE
  /\ guardArg' = None
  /\ guardRet' = None
  /\ file' = None
  /\ aliased' = None
  /\ resolvedUrl' = None
  /\ UNCHANGED <<strict, allow, alias, log, warnedMessages, nreq>>

Next == ServePublic \/ ServeStatic \/ ServeRawFs \/ CallGuard \/ Finish

Spec == Init /\ [][Next]_vars

---------------------------------------------------------------------------
\* Properties.

Done == pc = "done"

\* file as isFileServingRestricted derives it from its argument.
FileOf(u) == ensureLeadingSlash(normalizePath(cleanUrl(u)))

\* f lies under a directory of the allow list, on a segment boundary.
UnderAllowed(f) == \E i \in 1..Len(allow) : StartsWith(f, allow[i] \o <<"/">>)

\* f is a directory of the allow list.
EqualsAllowed(f) == \E i \in 1..Len(allow) : f = allow[i]

\* The guard ran in the handled request: on its argument guardArg[1].
GuardRan == Done /\ guardArg # None

\* C1: for a path that does not exist on disk isFileServingRestricted
\* returns false, whatever strict, the allow list and the safe-path set are.
C1_NonexistentNotRestricted ==
  (GuardRan /\ ~fsExists) => guardRet = Some(FALSE)

\* C2: with strict = true, an existing path that is not in the safe-path
\* set and is neither equal to nor under an allow-listed directory is
\* restricted.
C2_ExistingOutsideRestricted ==
  (/\ GuardRan /\ strict = "true" /\ fsExists /\ ~inSafe
   /\ ~UnderAllowed(FileOf(guardArg[1]))
   /\ ~EqualsAllowed(FileOf(guardArg[1])))
  => guardRet = Some(TRUE)

\* C3: serveRawFsMiddleware dispatches every request to exactly one of
\* next() and serveFromRoot(), and a request with the reserved prefix whose
\* path is restricted goes to next() and never to serveFromRoot().
C3_RawFsSingleDispatch ==
  (Done /\ op = "rawfs") =>
     /\ calls \in { <<"next">>, <<"serveFromRoot">> }
     /\ (guardRet = Some(TRUE) => calls = <<"next">>)

\* C4 as stated: a path equal to an allow-listed directory, or under one on
\* a segment boundary, is not restricted, whatever strict, the safe-path set
\* and the disk say.
C4_EqualOrDescendantNotRestricted ==
  (/\ GuardRan
   /\ \/ UnderAllowed(FileOf(guardArg[1]))
      \/ EqualsAllowed(FileOf(guardArg[1])))
  => guardRet = Some(FALSE)

\* C4 as amended: a path under an allow-listed directory on a segment
\* boundary (it starts with the directory followed by "/") is not
\* restricted, whatever strict, the safe-path set and the disk say.
C4_DescendantNotRestricted ==
  (GuardRan /\ UnderAllowed(FileOf(guardArg[1]))) => guardRet = Some(FALSE)

\* A nonexistent path under an allow-listed directory, outside the safe-path
\* set, went through the guard with strict = true.
C4_Witness ==
  /\ GuardRan /\ op = "guard" /\ strict = "true" /\ ~fsExists /\ ~inSafe
  /\ UnderAllowed(FileOf(guardArg[1]))
  /\ guardRet = Some(FALSE)

\* The rules of the alias table whose find matches u.
MatchingRules(u) == { i \in 1..Len(alias) : RuleMatches(alias[i], u) }

FirstMatch(u) == CHOOSE i \in MatchingRules(u) : \A j \in MatchingRules(u) : i <= j

\* C5: alias resolution in serveStaticMiddleware is first-match-wins: the
\* rewritten URL is the one the lowest-index matching rule produces from the
\* decoded URL, and when no rule matches there is no rewrite and the URL
\* used for path resolution is the decoded URL.
C5_AliasFirstMatchWins ==
  (Done /\ op = "static" /\ resolvedUrl # None) =>
     LET u1 == decodeURI(url)[1]
     IN IF MatchingRules(u1) = {}
        THEN aliased = None /\ resolvedUrl = Some(u1)
        ELSE aliased = Some(RuleReplace(alias[FirstMatch(u1)], u1))

X_xbc == <<"/", "x", "/", "b", "/", "c">>

\* Rules [("/a", "/x"), ("/a/b", "/y")] both match "/a/b/c" and the rewrite
\* is "/x/b/c".
C5_Witness ==
  /\ Done /\ op = "static" /\ url = U_abc
  /\ MatchingRules(U_abc) = {1, 2}
  /\ alias[1].replacement = S_x /\ alias[2].replacement = S_y
  /\ aliased = Some(X_xbc)

\* The extension of u, its query/hash suffix removed, is ".html": the last
\* segment ends in ".html" and has a character before the ".".
HasHtmlExtension(u) ==
  LET c == StripTrailingSlashes(cleanUrl(u))
  IN /\ EndsWith(c, HtmlExt)
     /\ Len(c) > Len(HtmlExt)
     /\ c[Len(c) - Len(HtmlExt)] # "/"

\* C6: serveStaticMiddleware calls next() without alias resolution, access
\* check or file transfer, and leaves req.url alone, for a URL that ends in
\* "/" or whose extension without the query/hash suffix is ".html";
\* "/assets/logo.png" is not skipped.
C6_DirectoryAndHtmlSkipped ==
  /\ (Done /\ op = "static" /\ (EndsWith(url, <<"/">>) \/ HasHtmlExtension(url))) =>
        /\ calls = <<"next">>
        /\ aliased = None /\ resolvedUrl = None
        /\ guardArg = None /\ guardRet = None
        /\ reqUrl = url
        /\ ~thrown
  /\ (Done /\ op = "static" /\ url = U_assets_logo) =>
        /\ resolvedUrl # None
        /\ guardArg # None

\* "/index.html?v=1" was handed to next() by serveStaticMiddleware.
C6_Witness ==
  /\ Done /\ op = "static" /\ url = U_index_q
  /\ calls = <<"next">> /\ guardArg = None

\* C7 as stated: servePublicMiddleware and serveStaticMiddleware both call
\* next() for an import request and never the file transfer.
C7_ImportSkippedByBoth ==
  (Done /\ op \in {"public", "static"} /\ isImportRequest(url)) =>
     calls = <<"next">>

\* C7 as amended: servePublicMiddleware calls next() for every import
\* request, never the file transfer, and leaves req.url alone.
C7_PublicSkipsImport ==
  (Done /\ op = "public" /\ isImportRequest(url)) =>
     calls = <<"next">> /\ reqUrl = url

\* "/assets/logo.png?import" was handed to next() by servePublicMiddleware.
C7_Witness ==
  /\ Done /\ op = "public" /\ url = U_logo_import
  /\ calls = <<"next">>

\* C8: the "outside of Vite serving allow list" warning is logged at most
\* once per distinct message.
C8_OutsideWarningOnce ==
  \A m \in BagToSet(log) :
     m.text = OutsideMsg(<<>>).text => CopiesIn(m, log) <= 1

\* The policy blocks the file of the handled request: it exists, is not in
\* the safe-path set and is outside the allow list, and strict = true.
PolicyBlocks ==
  /\ GuardRan /\ strict = "true" /\ fsExists /\ ~inSafe
  /\ ~UnderAllowed(FileOf(guardArg[1]))
  /\ ~EqualsAllowed(FileOf(guardArg[1]))

\* What the middleware of the handled request does with the same request
\* when the path does not exist.
NonexistentOutcome ==
  IF op = "static" THEN viteServeStaticMiddleware(url, FALSE, FALSE)
  ELSE viteServeRawFsMiddleware(url, FALSE, FALSE)

\* C9: a request for an existing file the policy blocks and the same
\* request for a path that does not exist end the same way: next() only,
\* no file transfer, the same req.url.
C9_RestrictedLikeNonexistent ==
  (op \in {"static", "rawfs"} /\ PolicyBlocks) =>
     /\ calls = <<"next">>
     /\ calls = NonexistentOutcome.calls
     /\ reqUrl = NonexistentOutcome.reqUrl

\* C10: every request serveStaticMiddleware handles ends in the file
\* transfer or in next(), never in a thrown error.
C10_StaticNeverThrows ==
  (Done /\ op = "static") =>
     /\ ~thrown
     /\ calls \in { <<"next">>, <<"serve">> }

====
